---- MODULE Spec2Model ----
(***************************************************************************)
(* Model of backend/fetch_and_analyze.py (the scan script) and             *)
(* backend/server.py (the HTTP trigger service).                           *)
(*                                                                         *)
(* Python values are tagged records: None, Num(n), Str(s), List(seq) and   *)
(* Dict(f), where f is a function whose domain is the dict's set of keys   *)
(* (a missing key is a missing field).                                     *)
(***************************************************************************)
EXTENDS Integers, Sequences, FiniteSets, TLC

(***************************************************************************)
(* Bounds of the model.                                                    *)
(***************************************************************************)
\* Analyzer inputs: groups + permissions + ranges of one document.
MaxWeight == 6
\* Documents the external command can print in the server model.
ScanWeight == 3
\* HTTP requests that arrive in one behaviour.
MaxRequests == 2

(***************************************************************************)
(* Python values.                                                          *)
(***************************************************************************)
None == [t |-> "None"]
Num(n) == [t |-> "int", v |-> n]
Str(s) == [t |-> "str", v |-> s]

List(s) == [t |-> "list", v |-> s]
Dict(f) == [t |-> "dict", v |-> f]

IsList(x) == x.t = "list"

IsDict(x) == x.t = "dict"

\* a == b
Eq(a, b) == a.t = b.t /\ a = b

\* dict.get(key): the default is dropped.
GetNoDefault(d, key, default) == IF key \in DOMAIN d.v THEN d.v[key] ELSE None

\* dict.get(key, default)
Get(d, key, default) == IF key \in DOMAIN d.v THEN d.v[key] ELSE default

Digit(d) == CASE d = 0 -> "0" [] d = 1 -> "1" [] d = 2 -> "2" [] d = 3 -> "3"
              [] d = 4 -> "4" [] d = 5 -> "5" [] d = 6 -> "6" [] d = 7 -> "7"
              [] d = 8 -> "8" [] d = 9 -> "9"

RECURSIVE NatStr(_)
NatStr(n) == IF n < 10 THEN Digit(n) ELSE NatStr(n \div 10) \o Digit(n % 10)

\* str(n) of a Python int
IntStr(n) == IF n < 0 THEN "-" \o NatStr(0 - n) ELSE NatStr(n)

\* The text an f-string substitutes for a value: format(v, "").
Format(x) == CASE x.t = "None" -> "None"
               [] x.t = "int" -> IntStr(x.v)
               [] x.t = "str" -> x.v

(***************************************************************************)
(* fetch_and_analyze.py: constants and the traversal.                      *)
(***************************************************************************)
ALLOWED_PORTS_8080 == <<Num(80), Num(443), Num(8080)>>

ALLOWED_PORTS == <<Num(80), Num(443)>>

UNIVERSAL_CIDR == Str("0.0.0.0/0")

\* port in ALLOWED_PORTS
InList(x, list) == \E i \in DOMAIN list : Eq(list[i], x)

risk(port) == IF InList(port, ALLOWED_PORTS) THEN "ALLOWED (80/443)" ELSE "HIGH RISK"

\* An absent bound rendered as the empty string.
PortRangeBlank(port, perm) ==
    LET text(x) == IF x = None THEN "" ELSE Format(x)
    IN  text(port) \o "-" \o text(Get(perm, "ToPort", None))

PortRange(port, perm) == Format(port) \o "-" \o Format(Get(perm, "ToPort", None))

\* The dict appended to results for one universal range of perm in sg.
Finding(sg, perm) ==
    LET port == Get(perm, "FromPort", None)
    IN  [SecurityGroupName |-> Get(sg, "GroupName", None),
         SecurityGroupId   |-> Get(sg, "GroupId", None),
         Protocol          |-> Get(perm, "IpProtocol", None),
         PortRange         |-> Str(PortRange(port, perm)),
         OpenTo            |-> Str("0.0.0.0/0"),
         Risk              |-> Str(risk(port))]

\* An uncaught exception inside the loops, or the list appended so far.
Raised == [raised |-> TRUE, out |-> <<>>]
Done(out) == [raised |-> FALSE, out |-> out]

\* Appends only the findings not yet in the list.
ThenUnique(a, b) ==
    IF a.raised \/ b.raised THEN Raised
    ELSE Done(a.out \o SelectSeq(b.out, LAMBDA f : \A i \in DOMAIN a.out : a.out[i] # f))

\* Inserts at the front instead of appending.
ThenFront(a, b) == IF a.raised \/ b.raised THEN Raised ELSE Done(b.out \o a.out)

Then(a, b) == IF a.raised \/ b.raised THEN Raised ELSE Done(a.out \o b.out)

IsOpen(ip) == Eq(Get(ip, "CidrIp", None), UNIVERSAL_CIDR)

\* if ip.get("CidrIp") == "0.0.0.0/0": results.append({...})
RangeStep(sg, perm, ip) ==
    IF ~IsDict(ip) THEN Raised
    ELSE IF IsOpen(ip) THEN Done(<<Finding(sg, perm)>>) ELSE Done(<<>>)

RECURSIVE RangeLoop(_, _, _)
\* for ip in perm.get("IpRanges", []):
RangeLoop(sg, perm, ranges) ==
    IF ~IsList(ranges) THEN Raised
    ELSE IF ranges.v = <<>> THEN Done(<<>>)
    ELSE Then(RangeStep(sg, perm, Head(ranges.v)),
              RangeLoop(sg, perm, List(Tail(ranges.v))))

RECURSIVE PermLoop(_, _)
\* for perm in sg.get("IpPermissions", []):
PermLoop(sg, perms) ==
    IF ~IsList(perms) THEN Raised
    ELSE IF perms.v = <<>> THEN Done(<<>>)
    ELSE IF ~IsDict(Head(perms.v)) THEN Raised
    ELSE Then(RangeLoop(sg, Head(perms.v), Get(Head(perms.v), "IpRanges", List(<<>>))),
              PermLoop(sg, List(Tail(perms.v))))

RECURSIVE GroupLoop(_)
\* for sg in security_groups.get("SecurityGroups", []):
GroupLoop(groups) ==
    IF ~IsList(groups) THEN Raised
    ELSE IF groups.v = <<>> THEN Done(<<>>)
    ELSE IF ~IsDict(Head(groups.v)) THEN Raised
    ELSE Then(PermLoop(Head(groups.v), Get(Head(groups.v), "IpPermissions", List(<<>>))),
              GroupLoop(List(Tail(groups.v))))

\* Lines 48-69: results = [] and the three nested loops.
Analyze(security_groups) ==
    IF ~IsDict(security_groups) THEN Raised
    ELSE GroupLoop(Get(security_groups, "SecurityGroups", List(<<>>)))


(***************************************************************************)
(* The inputs: documents the external command can print.  The weight of a  *)
(* document is the number of groups, permissions and ranges in it.         *)
(* GroupId is unique per group, as in the provider's data.                 *)
(***************************************************************************)
RangeObjs ==
    {Dict([CidrIp |-> Str("0.0.0.0/0")]),
     Dict([CidrIp |-> Str("10.0.0.0/8")]),
     Dict([Description |-> Str("office")])}

PermHeads ==
    {[IpProtocol |-> Str("tcp"), FromPort |-> Num(22), ToPort |-> Num(22)],
     [IpProtocol |-> Str("tcp"), FromPort |-> Num(443), ToPort |-> Num(443)]}

GroupHead(i) ==
    [GroupName |-> Str("group-" \o IntStr(i)), GroupId |-> Str("sg-" \o IntStr(i))]

\* A mapping with "SecurityGroups": [], one without the key, and JSON null.
EmptyDocs ==
    {Dict([SecurityGroups |-> List(<<>>)]), Dict([NextToken |-> Str("tok")]), None}

HasKey(d, key) == IsDict(d) /\ key \in DOMAIN d.v

Last(s) == s[Len(s)]

SetLast(s, x) == [s EXCEPT ![Len(s)] = x]

PermWeight(perm) == 1 + (IF HasKey(perm, "IpRanges") THEN Len(perm.v.IpRanges.v) ELSE 0)

RECURSIVE PermsWeight(_)
PermsWeight(perms) ==
    IF perms = <<>> THEN 0 ELSE PermWeight(Head(perms)) + PermsWeight(Tail(perms))

GroupWeight(sg) ==
    1 + (IF HasKey(sg, "IpPermissions") THEN PermsWeight(sg.v.IpPermissions.v) ELSE 0)

RECURSIVE GroupsWeight(_)
GroupsWeight(groups) ==
    IF groups = <<>> THEN 0 ELSE GroupWeight(Head(groups)) + GroupsWeight(Tail(groups))

Weight(doc) ==
    IF HasKey(doc, "SecurityGroups") THEN GroupsWeight(doc.v.SecurityGroups.v) ELSE 0

\* The documents that extend doc by one group at the end.
WithGroup(doc) ==
    IF ~HasKey(doc, "SecurityGroups") THEN {}
    ELSE LET groups == doc.v.SecurityGroups.v
             head   == GroupHead(Len(groups) + 1)
             news   == {Dict(head),
                        Dict([GroupName |-> head.GroupName, GroupId |-> head.GroupId,
                              IpPermissions |-> List(<<>>)])}
         IN  {Dict([SecurityGroups |-> List(Append(groups, g))]) : g \in news}

\* The documents that extend doc by one permission at the end of its last group.
WithPermission(doc) ==
    IF ~HasKey(doc, "SecurityGroups") \/ doc.v.SecurityGroups.v = <<>> THEN {}
    ELSE LET groups == doc.v.SecurityGroups.v
             sg     == Last(groups)
         IN  IF ~HasKey(sg, "IpPermissions") THEN {}
             ELSE LET news == {Dict(h) : h \in PermHeads}
                              \cup {Dict([IpProtocol |-> h.IpProtocol, FromPort |-> h.FromPort,
                                          ToPort |-> h.ToPort, IpRanges |-> List(<<>>)])
                                    : h \in PermHeads}
                      put(p) == Dict([sg.v EXCEPT !.IpPermissions =
                                         List(Append(sg.v.IpPermissions.v, p))])
                  IN  {Dict([SecurityGroups |-> List(SetLast(groups, put(p)))]) : p \in news}

\* The documents that extend doc by one range at the end of its last permission.
WithRange(doc) ==
    IF ~HasKey(doc, "SecurityGroups") \/ doc.v.SecurityGroups.v = <<>> THEN {}
    ELSE LET groups == doc.v.SecurityGroups.v
             sg     == Last(groups)
         IN  IF ~HasKey(sg, "IpPermissions") \/ sg.v.IpPermissions.v = <<>> THEN {}
             ELSE LET perms == sg.v.IpPermissions.v
                      perm  == Last(perms)
                  IN  IF ~HasKey(perm, "IpRanges") THEN {}
                      ELSE LET put(r) ==
                                 Dict([sg.v EXCEPT !.IpPermissions = List(SetLast(perms,
                                     Dict([perm.v EXCEPT !.IpRanges =
                                               List(Append(perm.v.IpRanges.v, r))])))])
                           IN  {Dict([SecurityGroups |-> List(SetLast(groups, put(r)))])
                                : r \in RangeObjs}

FromPorts ==
    {Num(-1), Num(0), Num(22), Num(79), Num(80), Num(81), Num(443), Num(444),
     Num(8080), Num(65535), Str("80"), None}

ToPorts == {Num(-1), Num(22), Num(80), Num(443), Num(65535), None}

\* One group with one permission open to the world, over a wide range of ports;
\* a bound is absent when its key is missing.
PortDocs ==
    LET Ports == {[FromPort |-> f, ToPort |-> t] : f \in FromPorts, t \in ToPorts}
                 \cup {[FromPort |-> f] : f \in FromPorts}
                 \cup {[ToPort |-> t] : t \in ToPorts}
                 \cup {<<>>}
        Protos == {[IpProtocol |-> Str("tcp")], [IpProtocol |-> Str("-1")]}
        Open   == [IpRanges |-> List(<<Dict([CidrIp |-> Str("0.0.0.0/0")])>>)]
    IN  {Dict([SecurityGroups |-> List(<<Dict(GroupHead(1) @@
              [IpPermissions |-> List(<<Dict(pr @@ po @@ Open)>>)])>>)])
         : pr \in Protos, po \in Ports}

RECURSIVE DocsOfWeight(_)
DocsOfWeight(w) ==
    IF w = 0 THEN EmptyDocs
    ELSE UNION {WithGroup(d) \cup WithPermission(d) \cup WithRange(d) : d \in DocsOfWeight(w - 1)}

\* What the external command prints in the server model.
ScanDocs == UNION {DocsOfWeight(w) : w \in 0..ScanWeight}

(***************************************************************************)
(* State.                                                                  *)
(***************************************************************************)
VARIABLES
    stage,            \* analyzer run: "collect", "parsed", "write" or "crashed"
    security_groups,  \* analyzer run: the parsed document
    results,          \* analyzer run: the list built by the loops
    pending,          \* server: connections waiting in the listen queue
    arrived,          \* server: number of requests received so far
    handlers,         \* server: the requests inside do_GET, by request id
    served,           \* server: the finished requests, in order of completion
    procs,            \* the running fetch_and_analyze.py processes, by request id
    report,           \* the file OUTPUT_FILE
    last_run          \* history: the most recent run that reached the write step

avars == <<stage, security_groups, results>>

svars == <<pending, arrived, handlers, served, procs, report, last_run>>

vars == <<stage, security_groups, results, pending, arrived, handlers, served, procs,
          report, last_run>>

Absent == [exists |-> FALSE, items |-> <<>>, complete |-> FALSE]

NoRun == [reached |-> FALSE, ok |-> FALSE, results |-> <<>>]

Idle ==
    /\ pending = <<>>
    /\ arrived = 0
    /\ handlers = <<>>
    /\ served = <<>>
    /\ procs = <<>>
    /\ report = Absent
    /\ last_run = NoRun

(***************************************************************************)
(* The analyzer applied to one document (lines 48-71).                     *)
(***************************************************************************)
AInit ==
    /\ stage = "collect"
    /\ security_groups \in EmptyDocs
    /\ results = <<>>
    /\ Idle

AInitPorts ==
    /\ stage = "parsed"
    /\ security_groups \in PortDocs
    /\ results = <<>>
    /\ Idle

\* The provider's data gains a group, a permission or a range.
Grow(more) ==
    /\ stage = "collect"
    /\ Weight(security_groups) < MaxWeight
    /\ security_groups' \in more
    /\ UNCHANGED <<stage, results>>
    /\ UNCHANGED svars

AddGroup == Grow(WithGroup(security_groups))

AddPermission == Grow(WithPermission(security_groups))

AddRange == Grow(WithRange(security_groups))

\* json.loads returned the document.
ALoad ==
    /\ stage = "collect"
    /\ stage' = "parsed"
    /\ UNCHANGED <<security_groups, results>>
    /\ UNCHANGED svars

\* The loops run; an exception in them ends the run before the write step.
AAnalyze ==
    /\ stage = "parsed"
    /\ LET r == Analyze(security_groups)
       IN  /\ stage' = IF r.raised THEN "crashed" ELSE "write"
           /\ results' = r.out
    /\ UNCHANGED security_groups
    /\ UNCHANGED svars

ANext == AddGroup \/ AddPermission \/ AddRange \/ ALoad \/ AAnalyze

SpecAnalyzer == AInit /\ [][ANext]_vars

SpecPorts == AInitPorts /\ [][AAnalyze]_vars


(***************************************************************************)
(* fetch_and_analyze.py as a process, one step per try block.              *)
(***************************************************************************)
Put(f, k, x) == [j \in DOMAIN f \cup {k} |-> IF j = k THEN x ELSE f[j]]

Drop(f, k) == [j \in DOMAIN f \ {k} |-> f[j]]

\* A process that has just started; before is the report file at that moment.
Started(before) ==
    [pc |-> "makedirs", at |-> "", code |-> 0, result |-> None,
     security_groups |-> None, results |-> <<>>, before |-> before]

\* sys.exit(code), or the end of the script, reached in step at.
Exit(proc, at, code) == [proc EXCEPT !.pc = "exited", !.at = at, !.code = code]

Stdouts ==
    {[json |-> FALSE, doc |-> None]} \cup {[json |-> TRUE, doc |-> d] : d \in ScanDocs}

\* What subprocess.run can return for the external command.
AwsResults ==
    {[stderr |-> e, returncode |-> c, stdout |-> o]
     : e \in {"", "An error occurred"}, c \in {0, 254}, o \in Stdouts}

\* if result.returncode != 0:
StatusFatal(result) == result.returncode # 0

\* if result.stderr:
StderrFatal(result) == result.stderr # ""

\* A parse that falls back to an empty mapping.
loadsOrEmpty(stdout) ==
    IF stdout.json THEN [raised |-> FALSE, value |-> stdout.doc]
    ELSE [raised |-> FALSE, value |-> Dict(<<>>)]

\* json.loads(result.stdout)
loads(stdout) ==
    IF stdout.json THEN [raised |-> FALSE, value |-> stdout.doc]
    ELSE [raised |-> TRUE, value |-> None]

\* open(OUTPUT_FILE, "a") and a completed json.dump
AppendFile(old, out) == [exists |-> TRUE, items |-> old.items \o out, complete |-> TRUE]

\* open(OUTPUT_FILE, "w") and a completed json.dump
WriteFile(old, out) == [exists |-> TRUE, items |-> out, complete |-> TRUE]

\* open(OUTPUT_FILE, "w") truncates; json.dump fails after k items.
Truncated(out, k) == [exists |-> TRUE, items |-> SubSeq(out, 1, k), complete |-> FALSE]

\* Lines 14-19: os.makedirs(OUTPUT_DIR, exist_ok=True)
MakeDirs(p) ==
    /\ p \in DOMAIN procs
    /\ procs[p].pc = "makedirs"
    /\ \/ procs' = [procs EXCEPT ![p].pc = "aws"]
       \/ procs' = [procs EXCEPT ![p] = Exit(@, "makedirs", 1)]
    /\ UNCHANGED <<pending, arrived, handlers, served, report, last_run>>
    /\ UNCHANGED avars

\* Lines 23-31: subprocess.run of the external command
RunAws(p) ==
    /\ p \in DOMAIN procs
    /\ procs[p].pc = "aws"
    /\ \/ \E r \in AwsResults :
             procs' = [procs EXCEPT ![p].pc = "stderr", ![p].result = r]
       \/ procs' = [procs EXCEPT ![p] = Exit(@, "aws", 1)]
    /\ UNCHANGED <<pending, arrived, handlers, served, report, last_run>>
    /\ UNCHANGED avars

\* Lines 35-38
CheckStderr(p) ==
    /\ p \in DOMAIN procs
    /\ procs[p].pc = "stderr"
    /\ procs' = IF StderrFatal(procs[p].result)
                THEN [procs EXCEPT ![p] = Exit(@, "stderr", 1)]
                ELSE [procs EXCEPT ![p].pc = "parse"]
    /\ UNCHANGED <<pending, arrived, handlers, served, report, last_run>>
    /\ UNCHANGED avars

\* Lines 42-46
Parse(p) ==
    /\ p \in DOMAIN procs
    /\ procs[p].pc = "parse"
    /\ LET r == loads(procs[p].result.stdout)
       IN  procs' = IF r.raised
                    THEN [procs EXCEPT ![p] = Exit(@, "parse", 1)]
                    ELSE [procs EXCEPT ![p].pc = "analyze", ![p].security_groups = r.value]
    /\ UNCHANGED <<pending, arrived, handlers, served, report, last_run>>
    /\ UNCHANGED avars

\* Lines 48-71; an exception in the loops is uncaught, the interpreter exits 1.
Traverse(p) ==
    /\ p \in DOMAIN procs
    /\ procs[p].pc = "analyze"
    /\ LET r == Analyze(procs[p].security_groups)
       IN  procs' = IF r.raised
                    THEN [procs EXCEPT ![p] = Exit(@, "analyze", 1)]
                    ELSE [procs EXCEPT ![p].pc = "write", ![p].results = r.out]
    /\ UNCHANGED <<pending, arrived, handlers, served, report, last_run>>
    /\ UNCHANGED avars

\* Lines 73-81: open fails, json.dump fails part-way, or the file is written.
Write(p) ==
    /\ p \in DOMAIN procs
    /\ procs[p].pc = "write"
    /\ LET out == procs[p].results
       IN  \/ /\ report' = report
              /\ procs' = [procs EXCEPT ![p] = Exit(@, "write", 1)]
              /\ last_run' = [reached |-> TRUE, ok |-> FALSE, results |-> out]
           \/ /\ \E k \in 0..Len(out) : report' = Truncated(out, k)
              /\ procs' = [procs EXCEPT ![p] = Exit(@, "write", 1)]
              /\ last_run' = [reached |-> TRUE, ok |-> FALSE, results |-> out]
           \/ /\ report' = WriteFile(report, out)
              /\ procs' = [procs EXCEPT ![p] = Exit(@, "end", 0)]
              /\ last_run' = [reached |-> TRUE, ok |-> TRUE, results |-> out]
    /\ UNCHANGED <<pending, arrived, handlers, served>>
    /\ UNCHANGED avars

(***************************************************************************)
(* server.py: TCPServer.serve_forever and Handler.do_GET.                  *)
(***************************************************************************)
SCAN_PATH == "/api/scan"

REPORT_PATH == "/backend/data/security_analysis.json"

Paths == {SCAN_PATH, REPORT_PATH}

\* A server that starts a thread per connection.
CanAcceptThreading(busy) == TRUE

\* serve_forever of a TCPServer takes the next connection when the handler of
\* the previous one has returned.
CanAccept(busy) == busy = {}

\* subprocess.run returns when the child has exited.
run_returned(proc) == proc.pc = "exited"

\* A response that reports the child's exit status.
ScanResponseChecked(code) ==
    IF code = 0 THEN [status |-> 200, body |-> "Scan completed"]
    ELSE [status |-> 500, body |-> "Scan failed"]

\* Lines 17-19, after a child that exited with code.
ScanResponse(code) == [status |-> 200, body |-> "Scan completed"]

\* super().do_GET(): the file under the working directory, or 404.
StaticResponse(file) ==
    IF file.exists THEN [status |-> 200, body |-> "file"]
    ELSE [status |-> 404, body |-> "File not found"]

Finished(req, sent, resp, code, returned) ==
    [id |-> req.id, path |-> req.path, sent |-> sent, status |-> resp.status,
     body |-> resp.body, code |-> code, returned |-> returned]

\* A client connects and sends GET path.
Arrive(path) ==
    /\ arrived < MaxRequests
    /\ arrived' = arrived + 1
    /\ pending' = Append(pending, [id |-> arrived + 1, path |-> path])
    /\ UNCHANGED <<handlers, served, procs, report, last_run>>
    /\ UNCHANGED avars

\* Lines 14-16: the scan route starts the script and waits for it.
StartScan ==
    /\ pending # <<>>
    /\ CanAccept(DOMAIN handlers)
    /\ Head(pending).path = SCAN_PATH
    /\ pending' = Tail(pending)
    /\ handlers' = Put(handlers, Head(pending).id, Head(pending))
    /\ procs' = Put(procs, Head(pending).id, Started(report))
    /\ UNCHANGED <<arrived, served, report, last_run>>
    /\ UNCHANGED avars

\* Line 16 raises (no python on the PATH): the handler ends without a response.
SpawnFails ==
    /\ pending # <<>>
    /\ CanAccept(DOMAIN handlers)
    /\ Head(pending).path = SCAN_PATH
    /\ pending' = Tail(pending)
    /\ served' = Append(served,
           Finished(Head(pending), FALSE, [status |-> 0, body |-> ""], 1, FALSE))
    /\ UNCHANGED <<arrived, handlers, procs, report, last_run>>
    /\ UNCHANGED avars

\* Lines 20-21: any other path is served as a static file.
ServeStatic ==
    /\ pending # <<>>
    /\ CanAccept(DOMAIN handlers)
    /\ Head(pending).path # SCAN_PATH
    /\ pending' = Tail(pending)
    /\ served' = Append(served,
           Finished(Head(pending), TRUE, StaticResponse(report), 0, FALSE))
    /\ UNCHANGED <<arrived, handlers, procs, report, last_run>>
    /\ UNCHANGED avars

\* Lines 17-19: the child has exited, the response is sent, do_GET returns.
Reply(p) ==
    /\ p \in DOMAIN handlers
    /\ p \in DOMAIN procs
    /\ run_returned(procs[p])
    /\ served' = Append(served,
           Finished(handlers[p], TRUE, ScanResponse(procs[p].code), procs[p].code,
                    procs[p].pc = "exited"))
    /\ handlers' = Drop(handlers, p)
    /\ procs' = Drop(procs, p)
    /\ UNCHANGED <<pending, arrived, report, last_run>>
    /\ UNCHANGED avars

Init ==
    /\ Idle
    /\ stage = "collect"
    /\ security_groups = None
    /\ results = <<>>

Next ==
    \/ \E path \in Paths : Arrive(path)
    \/ StartScan
    \/ SpawnFails
    \/ ServeStatic
    \/ \E p \in 1..MaxRequests :
          \/ MakeDirs(p)
          \/ RunAws(p)
          \/ CheckStderr(p)
          \/ Parse(p)
          \/ Traverse(p)
          \/ Write(p)
          \/ Reply(p)

Spec == Init /\ [][Next]_vars

(***************************************************************************)
(* Properties of the analyzer.                                             *)
(***************************************************************************)
GroupsOf(doc) == IF HasKey(doc, "SecurityGroups") THEN doc.v.SecurityGroups.v ELSE <<>>

PermsOf(sg) == IF HasKey(sg, "IpPermissions") THEN sg.v.IpPermissions.v ELSE <<>>

RangesOf(perm) == IF HasKey(perm, "IpRanges") THEN perm.v.IpRanges.v ELSE <<>>

GroupAt(doc, t) == GroupsOf(doc)[t[1]]

PermAt(doc, t) == PermsOf(GroupAt(doc, t))[t[2]]

RangeAt(doc, t) == RangesOf(PermAt(doc, t))[t[3]]

\* Every (group, permission, range) position of the document.
Triples(doc) ==
    UNION {UNION {{<<g, p, r>> : r \in DOMAIN RangesOf(PermsOf(GroupsOf(doc)[g])[p])}
                  : p \in DOMAIN PermsOf(GroupsOf(doc)[g])}
           : g \in DOMAIN GroupsOf(doc)}

IsUniversal(ip) == HasKey(ip, "CidrIp") /\ ip.v.CidrIp = Str("0.0.0.0/0")

UniversalTriples(doc) == {t \in Triples(doc) : IsUniversal(RangeAt(doc, t))}

Before(u, t) ==
    \/ u[1] < t[1]
    \/ u[1] = t[1] /\ u[2] < t[2]
    \/ u[1] = t[1] /\ u[2] = t[2] /\ u[3] < t[3]

\* The place of a universal triple among the universal triples, in input order.
Rank(doc, t) == 1 + Cardinality({u \in UniversalTriples(doc) : Before(u, t)})

Count(seq, f) == Cardinality({i \in DOMAIN seq : seq[i] = f})

Analyzed == stage = "write" /\ IsDict(security_groups)

\* C1: the analyzer emits one Finding per (group, permission, range) triple whose
\* range is the universal CIDR and none for any other range: every Finding occurs
\* in the results as many times as there are universal triples that produce it
\* (no deduplication), and the number of Findings is the number of such triples.
C1_OneFindingPerUniversalTriple ==
    Analyzed =>
        LET T == UniversalTriples(security_groups)
            F(t) == Finding(GroupAt(security_groups, t), PermAt(security_groups, t))
        IN  /\ Len(results) = Cardinality(T)
            /\ \A t \in T : Count(results, F(t)) = Cardinality({u \in T : F(u) = F(t)})
            /\ \A i \in DOMAIN results : \E t \in T : results[i] = F(t)

\* Two distinct permissions each open to the world give the same Finding, and a
\* third range of the document is not universal.
C1_Witness ==
    /\ Analyzed
    /\ \E t, u \in UniversalTriples(security_groups) :
          /\ <<t[1], t[2]>> # <<u[1], u[2]>>
          /\ Finding(GroupAt(security_groups, t), PermAt(security_groups, t))
                 = Finding(GroupAt(security_groups, u), PermAt(security_groups, u))
    /\ Triples(security_groups) # UniversalTriples(security_groups)
    /\ Len(results) = 2

HasFromPort(perm, n) == HasKey(perm, "FromPort") /\ perm.v.FromPort = Num(n)

\* C2: the Risk of a Finding is "ALLOWED (80/443)" exactly when the FromPort of
\* its permission is 80 or 443, and "HIGH RISK" for every other FromPort, an
\* absent one included, whatever the ToPort and the protocol.
C2_RiskFromStartPort ==
    Analyzed =>
        \A t \in UniversalTriples(security_groups) :
            LET perm == PermAt(security_groups, t)
                f    == results[Rank(security_groups, t)]
            IN  /\ f.Risk \in {Str("ALLOWED (80/443)"), Str("HIGH RISK")}
                /\ f.Risk = Str("ALLOWED (80/443)")
                      <=> (HasFromPort(perm, 80) \/ HasFromPort(perm, 443))

\* A permission with no FromPort and ToPort 443 is reported HIGH RISK.
C2_Witness ==
    /\ Analyzed
    /\ \E t \in UniversalTriples(security_groups) :
          /\ ~HasKey(PermAt(security_groups, t), "FromPort")
          /\ HasKey(PermAt(security_groups, t), "ToPort")
          /\ PermAt(security_groups, t).v.ToPort = Num(443)
          /\ results[Rank(security_groups, t)].Risk = Str("HIGH RISK")

\* The text of a bound: "None" when the key is missing or null.
Bound(perm, key) ==
    IF ~HasKey(perm, key) \/ perm.v[key] = None THEN "None"
    ELSE IF perm.v[key].t = "int" THEN ToString(perm.v[key].v)
    ELSE perm.v[key].v

\* C7: the PortRange of a Finding is "{start}-{end}" of its permission's FromPort
\* and ToPort, an absent bound rendered as the text None on its side only.
C7_PortRangeRendering ==
    Analyzed =>
        \A t \in UniversalTriples(security_groups) :
            LET perm == PermAt(security_groups, t)
            IN  results[Rank(security_groups, t)].PortRange
                    = Str(Bound(perm, "FromPort") \o "-" \o Bound(perm, "ToPort"))

\* One absent bound: no FromPort, ToPort 22.
C7_Witness ==
    /\ Analyzed
    /\ \E t \in UniversalTriples(security_groups) :
          /\ ~HasKey(PermAt(security_groups, t), "FromPort")
          /\ HasKey(PermAt(security_groups, t), "ToPort")
          /\ results[Rank(security_groups, t)].PortRange = Str("None-22")

\* C6: a missing key is an empty list at every level.  A mapping without
\* "SecurityGroups" gives no Finding, a group without "IpPermissions" gives none
\* of its own, a permission without "IpRanges" adds none to its group, and the
\* run goes on to the write step.
C6_MissingKeysTolerated ==
    (stage \in {"write", "crashed"} /\ IsDict(security_groups)) =>
        /\ stage = "write"
        /\ ~HasKey(security_groups, "SecurityGroups") => results = <<>>
        /\ \A g \in DOMAIN GroupsOf(security_groups) :
              LET sg   == GroupsOf(security_groups)[g]
                  mine == {i \in DOMAIN results : results[i].SecurityGroupId = sg.v.GroupId}
                  open == {t \in UniversalTriples(security_groups) :
                              /\ t[1] = g
                              /\ HasKey(PermAt(security_groups, t), "IpRanges")}
              IN  /\ ~HasKey(sg, "IpPermissions") => mine = {}
                  /\ Cardinality(mine) = Cardinality(open)

\* A group without "IpPermissions" and a permission without "IpRanges" beside a
\* permission that is reported.
C6_Witness ==
    /\ Analyzed
    /\ \E g \in DOMAIN GroupsOf(security_groups) :
          ~HasKey(GroupsOf(security_groups)[g], "IpPermissions")
    /\ \E g \in DOMAIN GroupsOf(security_groups) :
          \E p \in DOMAIN PermsOf(GroupsOf(security_groups)[g]) :
              ~HasKey(PermsOf(GroupsOf(security_groups)[g])[p], "IpRanges")
    /\ results # <<>>

\* C8: the Findings come in traversal order: the Finding of a universal triple
\* stands at the triple's place among the universal triples, ordered by group,
\* then permission, then range, as the input presents them.
C8_TraversalOrder ==
    Analyzed =>
        \A t \in UniversalTriples(security_groups) :
            /\ Rank(security_groups, t) <= Len(results)
            /\ results[Rank(security_groups, t)]
                   = Finding(GroupAt(security_groups, t), PermAt(security_groups, t))

\* Findings of two groups, the first group's ports above the second's.
C8_Witness ==
    /\ Analyzed
    /\ Len(results) = 2
    /\ results[1].SecurityGroupId = Str("sg-1")
    /\ results[2].SecurityGroupId = Str("sg-2")
    /\ results[1].PortRange = Str("443-443")
    /\ results[2].PortRange = Str("22-22")


(***************************************************************************)
(* Properties of the script and the server.                                *)
(***************************************************************************)
Procs == {procs[p] : p \in DOMAIN procs}

SawOutput(q) == q.result # None

\* C3: when the command's standard output is not well-formed JSON the script
\* never gets past the parse, it exits with a non-zero status, and the report
\* file keeps the content it had when the run started.
C3_MalformedOutputLeavesReport ==
    \A q \in Procs :
        (SawOutput(q) /\ ~q.result.stdout.json) =>
            /\ q.pc \in {"stderr", "parse", "exited"}
            /\ q.pc = "exited" => q.code # 0 /\ q.at \in {"stderr", "parse"}
            /\ q.security_groups = None
            /\ report = q.before

\* A run that failed in the parse, with a non-empty report of a prior run intact.
C3_Witness ==
    \E q \in Procs :
        /\ q.pc = "exited" /\ q.at = "parse" /\ q.code = 1
        /\ ~q.result.stdout.json
        /\ q.before.complete /\ q.before.items # <<>>
        /\ report = q.before

ScanReplies == {k \in DOMAIN served : served[k].path = SCAN_PATH /\ served[k].sent}

\* C4: every response on the scan route is sent after the script has exited and
\* is status 200 with the body "Scan completed", whatever the script's exit
\* status.
C4_FixedReplyAfterScan ==
    \A k \in ScanReplies :
        /\ served[k].returned
        /\ served[k].status = 200
        /\ served[k].body = "Scan completed"

\* Two scans answered, one whose script exited 0 and one whose script exited 1.
C4_Witness ==
    \E k, l \in ScanReplies : served[k].code = 0 /\ served[l].code = 1

PastCollector(q) ==
    \/ q.pc \in {"parse", "analyze", "write"}
    \/ q.pc = "exited" /\ q.at # "makedirs"

CollectorFatal(q) == q.pc = "exited" /\ q.at \in {"aws", "stderr"}

\* C5: the run ends at the collector exactly when the command could not be
\* spawned or its error stream is non-empty; then the exit status is non-zero,
\* nothing is parsed and the report is not written.  The command's exit status
\* plays no part: with an empty error stream, a non-zero status and well-formed
\* output of a mapping, the run goes on to the write step.
C5_FatalOnSpawnFailureOrStderr ==
    \A q \in Procs :
        PastCollector(q) =>
            /\ CollectorFatal(q) <=> (~SawOutput(q) \/ q.result.stderr # "")
            /\ CollectorFatal(q) =>
                  q.code # 0 /\ q.security_groups = None /\ report = q.before
            /\ (/\ q.pc = "exited"
                /\ SawOutput(q)
                /\ q.result.stderr = ""
                /\ q.result.stdout.json
                /\ IsDict(q.result.stdout.doc)) => q.at \in {"write", "end"}

\* The command exited 254 with an empty error stream and the report was written.
C5_Witness ==
    \E q \in Procs :
        /\ q.pc = "exited" /\ q.at = "end" /\ q.code = 0
        /\ q.result.returncode = 254 /\ q.result.stderr = ""
        /\ q.results # <<>>
        /\ report = [exists |-> TRUE, items |-> q.results, complete |-> TRUE]

Complete(out) == [exists |-> TRUE, items |-> out, complete |-> TRUE]

\* C9 as stated: the report file holds exactly the Findings of the most recent
\* run that reached the write step.
C9_ReportIsLastRunThatReachedWrite ==
    last_run.reached => report = Complete(last_run.results)

\* C9, amended: when the most recent run that reached the write step completed
\* its write, the report file holds exactly that run's Findings and nothing of
\* earlier runs (an empty array when it found none); a run that ends before the
\* write step leaves the file as it was.
C9_ReportIsLastCompletedWrite ==
    /\ (last_run.reached /\ last_run.ok) => report = Complete(last_run.results)
    /\ \A q \in Procs :
          (q.pc = "exited" /\ q.at \notin {"write", "end"}) => report = q.before

\* A run with no Findings has replaced a non-empty report by an empty array.
C9_Witness ==
    \E q \in Procs :
        /\ q.pc = "exited" /\ q.at = "end" /\ q.results = <<>>
        /\ q.before.complete /\ q.before.items # <<>>
        /\ last_run.ok
        /\ report = Complete(<<>>)

\* C10: one request at a time.  At most one request is inside do_GET and at most
\* one script process exists, so no two runs are in the write step together; a
\* request is handled only when every earlier request is finished, and requests
\* finish in the order they arrived.
C10_OneRequestAtATime ==
    /\ Cardinality(DOMAIN handlers) <= 1
    /\ Cardinality(DOMAIN procs) <= 1
    /\ Cardinality({p \in DOMAIN procs : procs[p].pc = "write"}) <= 1
    /\ \A j \in DOMAIN handlers :
          \A i \in 1..(j - 1) : \E k \in DOMAIN served : served[k].id = i
    /\ \A k, l \in DOMAIN served : k < l => served[k].id < served[l].id

\* A second scan request waits in the queue while the first scan's script is
\* about to write the report.
C10_Witness ==
    /\ DOMAIN handlers = {1}
    /\ 1 \in DOMAIN procs /\ procs[1].pc = "write"
    /\ pending # <<>> /\ Head(pending).path = SCAN_PATH

====
